---- MODULE Spec2Model ----
(***************************************************************************)
(* veriq: project registry (scopes, root models, calculations,             *)
(* verifications) and the dependency-ordered evaluator.                    *)
(*                                                                         *)
(* Python values are modelled as follows.  Numbers are integers (the       *)
(* floats of the examples scaled to integers), a pydantic model instance   *)
(* is a record of its fields, a Table instance is a function from its keys *)
(* to values, a dict that keeps insertion order is a sequence of           *)
(* <<key, value>> pairs, and a raised exception is the "err" field of the  *)
(* outcome of the operation (the empty string when nothing was raised).    *)
(***************************************************************************)
EXTENDS Integers, Sequences, FiniteSets, TLC

VARIABLES scopes, project, refs, lastErr, frozen, run, parsing, table, context, locals, probe

\* The registry and the evaluation; what is not part of them.
registry == <<scopes, project, refs, lastErr, frozen, run>>
aside == <<parsing, table, context, locals, probe>>

vars == <<scopes, project, refs, lastErr, frozen, run, parsing, table, context, locals, probe>>

----------------------------------------------------------------------------
(* Bounds of the model.                                                    *)

\* Successful calculation/verification registrations per behaviour.
MaxRegs == 3

\* The user-function call that raises is one of the first MaxFailAt calls.
MaxFailAt == 2

----------------------------------------------------------------------------
(* Generic helpers on sequences.                                           *)

Range(s) == {s[i] : i \in DOMAIN s}

RECURSIVE Concat(_)
\* Concatenation of a sequence of sequences.
Concat(ss) == IF ss = <<>> THEN <<>> ELSE Head(ss) \o Concat(Tail(ss))

\* ss with x appended unless it already occurs (first occurrence order).
AddOnce(s, x) == IF x \in Range(s) THEN s ELSE Append(s, x)

RECURSIVE Dedup(_)
Dedup(s) ==
    IF s = <<>> THEN <<>>
    ELSE LET r == Dedup(SubSeq(s, 1, Len(s) - 1))
         IN  AddOnce(r, s[Len(s)])

\* Index of the first pair of an ordered dict whose key is k; 0 when absent.
IndexOf(d, k) ==
    IF \E i \in DOMAIN d : d[i][1] = k
    THEN CHOOSE i \in DOMAIN d : d[i][1] = k /\ \A j \in 1..(i - 1) : d[j][1] # k
    ELSE 0

HasKey(d, k) == IndexOf(d, k) # 0

Lookup(d, k) == d[IndexOf(d, k)][2]

Keys(d) == {d[i][1] : i \in DOMAIN d}

----------------------------------------------------------------------------
(* Paths (_path.py).                                                       *)

AttributePart(name) == <<"attr", name>>
ItemPart(key) == <<"item", key>>

\* The root of a CalcPath is "@" followed by the calculation name and the
\* root of a VerificationPath "?" followed by the verification name; the
\* model keeps the sub-kind and the name after the prefix.
ModelPath(parts) == [kind |-> "ModelPath", root |-> "$", parts |-> parts]
CalcPath(name, parts) == [kind |-> "CalcPath", root |-> name, parts |-> parts]
VerificationPath(name) == [kind |-> "VerificationPath", root |-> name, parts |-> <<>>]

ProjectPath(scope, path) == [scope |-> scope, path |-> path]

----------------------------------------------------------------------------
(* The types the authors declare (examples/dummysat.py, tests/test_table.py *)
(* and the scenarios of the specification), by name.                       *)

\* inspect.isclass(T): a subscripted generic such as Table[Option, float] is
\* a types.GenericAlias, not a class; every other type of the menu is one.
IsClass(T) == T # "Table[Option,float]"

\* issubclass(T, Table) for a class T.  No class of the menu derives from
\* Table: the annotation Table[Option, float] is an alias, not a subclass.
IsTableClass(T) == FALSE

\* T.expected_keys read on a Table class (a sequence, in iteration order).
ClassExpectedKeys(T) == <<>>

\* issubclass(T, BaseModel).
IsBaseModel(T) ==
    T \in {"PowerModel", "ThermalModel", "SolarPanelModel", "SolarPanelResult",
           "ThermalResult"}

\* T.model_fields of a pydantic model: <<field name, annotation>> in
\* declaration order.
ModelFields(T) ==
    CASE T = "PowerModel" ->
           << <<"x", "float">>, <<"solar_panel", "SolarPanelModel">>,
              <<"input_table", "Table[Option,float]">> >>
      [] T = "SolarPanelModel" -> << <<"area", "float">>, <<"efficiency", "float">> >>
      [] T = "SolarPanelResult" -> << <<"heat_generation", "float">> >>
      [] T = "ThermalResult" -> << <<"temp_max", "float">> >>
      [] OTHER -> <<>>

\* typing.get_args(T).
GetArgs(T) == IF T = "Table[Option,float]" THEN <<"Option", "float">> ELSE <<>>

\* isinstance(T, type), as _get_return_type_from_signature asks it.
IsType(T) == IsClass(T)

\* The root model class decorated with @scope.root_model() for each scope.
RootModelOf(s) == IF s = "Power" THEN "PowerModel" ELSE "ThermalModel"

ScopeNames == {"Power", "Thermal"}

\* The instance of each root model handed to evaluate_project.
Instance(T) ==
    IF T = "PowerModel"
    THEN [x |-> 3,
          solar_panel |-> [area |-> 2, efficiency |-> 30],
          input_table |-> [option_a |-> 314, option_b |-> 271]]
    ELSE <<>>

\* A value of each schema.
ValueOf(T) ==
    CASE T = "float" -> 3
      [] T = "SolarPanelModel" -> [area |-> 2, efficiency |-> 30]
      [] T = "SolarPanelResult" -> [heat_generation |-> 100]
      [] OTHER -> Instance(T)

----------------------------------------------------------------------------
(* The schema walker and the value walker (_path.py).                      *)

RECURSIVE iter_leaf_path_parts_from(_, _)
iter_leaf_path_parts_from(model, current) ==
    IF ~IsClass(model) THEN << current >>
    ELSE IF IsTableClass(model)
    THEN [i \in DOMAIN ClassExpectedKeys(model) |->
             Append(current, ItemPart(ClassExpectedKeys(model)[i]))]
    ELSE IF ~IsBaseModel(model) THEN << current >>
    ELSE LET fs == ModelFields(model)
         IN  Concat([i \in DOMAIN fs |->
                 IF fs[i][2] = "None" THEN <<>>
                 ELSE iter_leaf_path_parts_from(fs[i][2],
                          Append(current, AttributePart(fs[i][1])))])

iter_leaf_path_parts(model) == iter_leaf_path_parts_from(model, <<>>)

RECURSIVE get_value_by_parts(_, _)
\* [err, val]: getattr raises AttributeError, subscripting raises KeyError.
get_value_by_parts(data, parts) ==
    IF parts = <<>> THEN [err |-> "", val |-> data]
    ELSE LET part == Head(parts)
         IN  IF part[2] \notin DOMAIN data
             THEN [err |-> IF part[1] = "attr" THEN "AttributeError" ELSE "KeyError",
                   val |-> 0]
             ELSE get_value_by_parts(data[part[2]], Tail(parts))

----------------------------------------------------------------------------
(* The functions the authors decorate: for each, its parameters (name, the *)
(* Ref annotation's path and scope; scope "None" when the Ref names none)  *)
(* and its return annotation.                                              *)

Param(name, path, scope) == [name |-> name, path |-> path, scope |-> scope]

CalcFuncs ==
    {"solar_heat", "calculate_temperature", "double", "triple", "calc_a",
     "calc_b", "output_table", "use_panel", "no_return_calc", "panel_of"}

\* no_return_verif has no return annotation, float_verif is annotated
\* -> float, and bad_verif is annotated -> bool but returns a number.
VerifFuncs ==
    {"hot_enough", "small_enough", "no_return_verif", "float_verif", "bad_verif",
     "panel_ok"}

Funcs == CalcFuncs \cup VerifFuncs

FuncParams(f) ==
    CASE f = "calculate_temperature" ->
           << Param("h", CalcPath("solar_heat", <<AttributePart("heat_generation")>>),
                    "Power") >>
      [] f = "hot_enough" ->
           << Param("v", CalcPath("calculate_temperature", <<AttributePart("temp_max")>>),
                    "Thermal") >>
      [] f \in {"double", "no_return_calc", "no_return_verif", "float_verif", "bad_verif",
                "panel_of"} ->
           << Param("x", ModelPath(<<AttributePart("x")>>), "None") >>
      [] f = "triple" -> << Param("d", CalcPath("double", <<>>), "None") >>
      [] f = "panel_ok" -> << Param("p", CalcPath("panel_of", <<>>), "None") >>
      [] f = "small_enough" -> << Param("d", CalcPath("double", <<>>), "None") >>
      [] f = "calc_a" -> << Param("b", CalcPath("calc_b", <<>>), "None") >>
      [] f = "calc_b" -> << Param("a", CalcPath("calc_a", <<>>), "None") >>
      [] f = "output_table" ->
           << Param("input_table", ModelPath(<<AttributePart("input_table")>>), "None") >>
      [] f = "use_panel" ->
           << Param("p", ModelPath(<<AttributePart("solar_panel")>>), "None") >>
      [] OTHER -> <<>>

\* The return annotation ("Empty" is inspect.Signature.empty).
ReturnAnnotation(f) ==
    CASE f \in {"hot_enough", "small_enough", "bad_verif", "panel_ok"} -> "bool"
      [] f \in {"no_return_calc", "no_return_verif"} -> "Empty"
      [] f = "solar_heat" -> "SolarPanelResult"
      [] f = "panel_of" -> "SolarPanelModel"
      [] f = "calculate_temperature" -> "ThermalResult"
      [] f = "output_table" -> "Table[Option,float]"
      [] OTHER -> "float"

\* What the function returns for the keyword arguments `inputs` (a record
\* keyed by parameter name).
Apply(f, inputs) ==
    CASE f = "solar_heat" -> [heat_generation |-> 100]
      [] f = "calculate_temperature" -> [temp_max |-> inputs.h \div 2]
      [] f = "hot_enough" -> inputs.v < 85
      [] f = "small_enough" -> inputs.d < 85
      [] f = "double" -> inputs.x * 2
      [] f = "triple" -> inputs.d * 3
      [] f = "calc_a" -> inputs.b
      [] f = "calc_b" -> inputs.a
      [] f = "output_table" ->
           [k \in DOMAIN inputs.input_table |-> inputs.input_table[k] * 2]
      [] f = "use_panel" -> 100
      [] f = "no_return_calc" -> inputs.x
      [] f = "no_return_verif" -> inputs.x < 85
      [] f = "float_verif" -> inputs.x * 2
      [] f = "bad_verif" -> inputs.x * 2
      [] f = "panel_of" -> [area |-> inputs.x, efficiency |-> inputs.x * 2]
      [] f = "panel_ok" -> TRUE

----------------------------------------------------------------------------
(* Registration (_models.py).                                              *)

\* The Ref objects of the annotations as the module defines them.
InitialRefs == [f \in Funcs |-> [i \in DOMAIN FuncParams(f) |-> FuncParams(f)[i].scope]]

\* _get_return_type_from_signature: [err, type].
get_return_type_from_signature(f) ==
    LET ra == ReturnAnnotation(f)
    IN  IF ra = "Empty" THEN [err |-> "TypeError:no-return-annotation", type |-> ra]
        ELSE IF IsType(ra) THEN [err |-> "", type |-> ra]
        ELSE [err |-> "TypeError:return-not-a-type", type |-> ra]

\* The loop over dep_refs without its scope test: every Ref without a
\* scope takes the owner's, and no Ref is refused.
check_dep_scopes_untested(rs, owner, imports, i) ==
    [err |-> "", rs |-> [j \in DOMAIN rs |-> IF rs[j] = "None" THEN owner ELSE rs[j]]]

RECURSIVE check_dep_scopes(_, _, _, _)
\* The loop over dep_refs of __post_init__, from parameter i on: it writes
\* the owning scope into every Ref without one and stops at the first Ref
\* whose scope is neither the owner nor imported.  rs is the scope of each
\* parameter's Ref object.  [err, rs].
check_dep_scopes(rs, owner, imports, i) ==
    IF i > Len(rs) THEN [err |-> "", rs |-> rs]
    ELSE LET rs1 == IF rs[i] = "None" THEN [rs EXCEPT ![i] = owner] ELSE rs
         IN  IF rs1[i] # owner /\ rs1[i] \notin imports
             THEN [err |-> "ValueError:scope-not-imported", rs |-> rs1]
             ELSE check_dep_scopes(rs1, owner, imports, i + 1)

\* dep_ppaths: parameter name -> ProjectPath, in parameter order.
dep_ppaths_of(f, rs) ==
    [i \in DOMAIN FuncParams(f) |->
        <<FuncParams(f)[i].name, ProjectPath(rs[i], FuncParams(f)[i].path)>>]

\* Calculation.__post_init__: [err, rs, obj].
Calculation_post_init(name, f, owner, imports, rs) ==
    LET chk == check_dep_scopes(rs, owner, imports, 1)
        rt  == get_return_type_from_signature(f)
        obj == [name |-> name, func |-> f, default_scope_name |-> owner,
                imported_scope_names |-> imports,
                dep_ppaths |-> dep_ppaths_of(f, chk.rs),
                output_type |-> rt.type]
    IN  IF chk.err # "" THEN [err |-> chk.err, rs |-> chk.rs, obj |-> obj]
        ELSE [err |-> rt.err, rs |-> chk.rs, obj |-> obj]

\* Verification.__post_init__: [err, rs, obj].  The return annotation is
\* not read.
Verification_post_init(name, f, owner, imports, rs) ==
    LET chk == check_dep_scopes(rs, owner, imports, 1)
        obj == [name |-> name, func |-> f, default_scope_name |-> owner,
                imported_scope_names |-> imports,
                dep_ppaths |-> dep_ppaths_of(f, chk.rs)]
    IN  [err |-> chk.err, rs |-> chk.rs, obj |-> obj]

\* A fresh Scope object.
NewScope == [root_model |-> "None", calculations |-> <<>>, verifications |-> <<>>]

NRegistered ==
    LET n[S \in SUBSET ScopeNames] ==
          IF S = {} THEN 0
          ELSE LET s == CHOOSE x \in S : TRUE
               IN  Len(scopes[s].calculations) + Len(scopes[s].verifications)
                   + n[S \ {s}]
    IN  n[ScopeNames]

----------------------------------------------------------------------------
(* Type resolution (Project.get_type).  P is the project: the names of the *)
(* scopes added, in order; S maps a scope name to its Scope object.        *)

RECURSIVE walk_model_type(_, _)
\* The loop over ppath.path.parts for a ModelPath: [err, type].
walk_model_type(current_type, parts) ==
    IF parts = <<>> THEN [err |-> "", type |-> current_type]
    ELSE LET part == Head(parts)
         IN  IF part[1] = "attr"
             THEN IF ~IsBaseModel(current_type)
                  THEN [err |-> "AttributeError", type |-> current_type]
                  ELSE IF ~HasKey(ModelFields(current_type), part[2])
                  THEN [err |-> "KeyError:attribute-not-found", type |-> current_type]
                  ELSE walk_model_type(Lookup(ModelFields(current_type), part[2]),
                                       Tail(parts))
             ELSE IF Len(GetArgs(current_type)) # 2
                  THEN [err |-> "TypeError:not-subscriptable", type |-> current_type]
                  ELSE walk_model_type(GetArgs(current_type)[2], Tail(parts))

get_type(P, S, ppath) ==
    IF ppath.scope \notin Range(P)
    THEN [err |-> "KeyError:scope-not-found", type |-> "None"]
    ELSE LET scope == S[ppath.scope]
         IN  CASE ppath.path.kind = "ModelPath" ->
                    IF scope.root_model = "None"
                    THEN [err |-> "RuntimeError:no-root-model", type |-> "None"]
                    ELSE walk_model_type(scope.root_model, ppath.path.parts)
               [] ppath.path.kind = "CalcPath" ->
                    IF ~HasKey(scope.calculations, ppath.path.root)
                    THEN [err |-> "KeyError:calculation-not-found", type |-> "None"]
                    ELSE [err |-> "",
                          type |-> Lookup(scope.calculations, ppath.path.root).output_type]
               [] OTHER -> [err |-> "", type |-> "bool"]

----------------------------------------------------------------------------
(* The dependency graph (_build.py).  The successor multimap is kept as    *)
(* the sequence of its edges <<source, destination>> in the order in which *)
(* the builder first adds them.                                            *)

\* The source leaves of a dependency on a model only: a dependency on a
\* calculation adds no edge.
src_leaf_ppaths_models_only(P, S, dep_ppath) ==
    LET ty == get_type(P, S, dep_ppath)
        ls == iter_leaf_path_parts(ty.type)
    IN  IF ty.err # "" THEN [err |-> ty.err, leaves |-> <<>>]
        ELSE IF dep_ppath.path.kind # "ModelPath" THEN [err |-> "", leaves |-> <<>>]
        ELSE [err |-> "",
              leaves |-> [i \in DOMAIN ls |->
                  ProjectPath(dep_ppath.scope,
                      [dep_ppath.path EXCEPT !.parts = dep_ppath.path.parts \o ls[i]])]]

\* The source leaves of one dependency: [err, leaves].
src_leaf_ppaths(P, S, dep_ppath) ==
    LET ty == get_type(P, S, dep_ppath)
        ls == iter_leaf_path_parts(ty.type)
    IN  IF ty.err # "" THEN [err |-> ty.err, leaves |-> <<>>]
        ELSE IF ls # <<>> /\ dep_ppath.path.kind = "VerificationPath"
        THEN [err |-> "TypeError:unsupported-dependency-path", leaves |-> <<>>]
        ELSE [err |-> "",
              leaves |-> [i \in DOMAIN ls |->
                  ProjectPath(dep_ppath.scope,
                      [dep_ppath.path EXCEPT !.parts = dep_ppath.path.parts \o ls[i]])]]

\* A builder that gives a calculation one destination, whatever its output.
calc_dst_ppaths_single(scope_name, calc_name, output_type) ==
    << ProjectPath(scope_name, CalcPath(calc_name, <<>>)) >>

\* The destination leaves of a calculation, and the one of a verification.
calc_dst_ppaths(scope_name, calc_name, output_type) ==
    LET ls == iter_leaf_path_parts(output_type)
    IN  [i \in DOMAIN ls |-> ProjectPath(scope_name, CalcPath(calc_name, ls[i]))]

verif_dst_ppaths(scope_name, verif_name) ==
    << ProjectPath(scope_name, VerificationPath(verif_name)) >>

\* One <<dependency, destinations>> per pass of the two inner loops, in the
\* builder's order: scopes in project order, in each the calculations and
\* then the verifications, in each its dependencies.
build_items(P, S) ==
    Concat([k \in DOMAIN P |->
        LET scope == S[P[k]]
            cs == scope.calculations
            vs == scope.verifications
        IN  Concat([i \in DOMAIN cs |->
                [j \in DOMAIN cs[i][2].dep_ppaths |->
                    <<cs[i][2].dep_ppaths[j][2],
                      calc_dst_ppaths(P[k], cs[i][1], cs[i][2].output_type)>>]])
            \o
            Concat([i \in DOMAIN vs |->
                [j \in DOMAIN vs[i][2].dep_ppaths |->
                    <<vs[i][2].dep_ppaths[j][2], verif_dst_ppaths(P[k], vs[i][1])>>]])])

RECURSIVE build_from(_, _, _, _)
\* [err, edges]: the edges added so far, or the first exception.
build_from(P, S, items, edges) ==
    IF items = <<>> THEN [err |-> "", edges |-> edges]
    ELSE LET src == src_leaf_ppaths(P, S, Head(items)[1])
             dst == Head(items)[2]
             new == Concat([i \in DOMAIN src.leaves |->
                        [j \in DOMAIN dst |-> <<src.leaves[i], dst[j]>>]])
         IN  IF src.err # "" THEN [err |-> src.err, edges |-> edges]
             ELSE build_from(P, S, Tail(items), Dedup(edges \o new))

build_dependencies_graph(P, S) == build_from(P, S, build_items(P, S), <<>>)

\* dependencies_graph.predecessors[ppath]: the inverse of the successors.
Predecessors(edges, ppath) == {e[1] : e \in {x \in Range(edges) : x[2] = ppath}}

Successors(edges, ppath) == {e[2] : e \in {x \in Range(edges) : x[1] = ppath}}

\* The order in which a Python set that received the elements of seq in
\* this order is iterated.  It follows the hashes of the elements, which
\* change with the interpreter's hash seed: for the sets of at most two
\* elements of this model it is seq or its reverse.
SetIterationOrder(seq, hash_flip) ==
    IF hash_flip THEN [i \in DOMAIN seq |-> seq[Len(seq) + 1 - i]] ELSE seq

\* Iterating dependencies_graph.successors[ppath].
IterSuccessors(edges, ppath, hash_flip) ==
    LET from == SelectSeq(edges, LAMBDA e : e[1] = ppath)
    IN  SetIterationOrder([i \in DOMAIN from |-> from[i][2]], hash_flip)

----------------------------------------------------------------------------
(* The topological scheduler (_utils.topological_sort).                    *)

\* Every node of the multimap, keys and values, in first-seen order.
GraphNodes(edges) == Dedup(Concat([i \in DOMAIN edges |-> <<edges[i][1], edges[i][2]>>]))

RECURSIVE kahn_reversed(_, _, _, _)
\* The algorithm were it to put each node taken in front of those emitted.
kahn_reversed(edges, hash_flip, queue, done) ==
    IF queue = <<>> THEN done
    ELSE LET n == Head(queue)
             done1 == <<n>> \o done
             ready == SelectSeq(IterSuccessors(edges, n, hash_flip), LAMBDA m :
                          Predecessors(edges, m) \subseteq Range(done1))
         IN  kahn_reversed(edges, hash_flip, Tail(queue) \o ready, done1)

RECURSIVE kahn(_, _, _, _)
\* Kahn's algorithm: queue is the FIFO ready queue, done the nodes emitted.
\* The successors of the node taken are walked as their set iterates.
kahn(edges, hash_flip, queue, done) ==
    IF queue = <<>> THEN done
    ELSE LET n == Head(queue)
             done1 == Append(done, n)
             ready == SelectSeq(IterSuccessors(edges, n, hash_flip), LAMBDA m :
                          Predecessors(edges, m) \subseteq Range(done1))
         IN  kahn(edges, hash_flip, Tail(queue) \o ready, done1)

\* [err, order].
topological_sort(edges, hash_flip) ==
    LET nodes == GraphNodes(edges)
        first == SelectSeq(nodes, LAMBDA m : Predecessors(edges, m) = {})
        order == kahn(edges, hash_flip, first, <<>>)
    IN  IF Len(order) < Len(nodes) THEN [err |-> "CycleError", order |-> order]
        ELSE [err |-> "", order |-> order]

----------------------------------------------------------------------------
(* The evaluator (_eval.evaluate_project).                                 *)

\* The empty result dict.
EmptyResult == [k \in {} |-> 0]

Put(result, key, value) == [k \in (DOMAIN result) \cup {key} |->
                               IF k = key THEN value ELSE result[k]]

RECURSIVE put_leaves(_, _, _, _, _)
\* Stores walk(data, leaves[i]) under key_of(leaves[i]) for every i, in
\* order: [err, result].
put_leaves(result, data, leaves, scope_name, path) ==
    IF leaves = <<>> THEN [err |-> "", result |-> result]
    ELSE LET v == get_value_by_parts(data, Head(leaves))
             key == ProjectPath(scope_name,
                        [path EXCEPT !.parts = path.parts \o Head(leaves)])
         IN  IF v.err # "" THEN [err |-> v.err, result |-> result]
             ELSE put_leaves(Put(result, key, v.val), data, Tail(leaves),
                             scope_name, path)

RECURSIVE hydrate_models(_, _, _, _)
\* Lines 17-27: model_data is a sequence of <<scope name, instance>>.
hydrate_models(P, S, model_data, result) ==
    IF model_data = <<>> THEN [err |-> "", result |-> result]
    ELSE LET scope_name == Head(model_data)[1]
         IN  IF scope_name \notin Range(P)
             THEN [err |-> "KeyError:scope-not-found", result |-> result]
             ELSE IF S[scope_name].root_model = "None"
             THEN hydrate_models(P, S, Tail(model_data), result)
             ELSE LET r == put_leaves(result, Head(model_data)[2],
                               iter_leaf_path_parts(S[scope_name].root_model),
                               scope_name, ModelPath(<<>>))
                  IN  IF r.err # "" THEN r
                      ELSE hydrate_models(P, S, Tail(model_data), r.result)

\* input_values of lines 48 and 61: [err, values], values a record keyed
\* by parameter name.
input_values_of(dep_ppaths, predecessors, result) ==
    IF \E i \in DOMAIN dep_ppaths : dep_ppaths[i][2] \notin predecessors
    THEN [err |-> "KeyError:input-values", values |-> <<>>]
    ELSE [err |-> "",
          values |-> [n \in {dep_ppaths[i][1] : i \in DOMAIN dep_ppaths} |->
                         result[Lookup(dep_ppaths, n)]]]

\* One call of a user function, as the log keeps it.
Call(ppath, f, inputs, known, raised) ==
    [node |-> ppath, func |-> f, inputs |-> inputs, known |-> known, raised |-> raised]

\* One pass of the loop that reads result with a default: a predecessor or
\* an input without a value is taken as 0 and the function is called.
eval_node_unchecked(P, S, edges, st, ppath, fail_at) ==
    IF ppath \in DOMAIN st.result THEN st
    ELSE
    LET kind == ppath.path.kind
        regs == IF kind = "CalcPath" THEN S[ppath.scope].calculations
                ELSE S[ppath.scope].verifications
    IN  IF kind = "ModelPath"
        THEN [st EXCEPT !.err = "TypeError:unsupported-path-type"]
        ELSE IF ~HasKey(regs, ppath.path.root)
        THEN [st EXCEPT !.err = "KeyError:not-registered"]
        ELSE
        LET obj == Lookup(regs, ppath.path.root)
            deps == obj.dep_ppaths
            values == [n \in {deps[i][1] : i \in DOMAIN deps} |->
                          IF Lookup(deps, n) \in DOMAIN st.result
                          THEN st.result[Lookup(deps, n)] ELSE 0]
            raised == (Len(st.calls) + 1 = fail_at)
            calls1 == Append(st.calls,
                          Call(ppath, obj.func, values, DOMAIN st.result, raised))
            out == Apply(obj.func, values)
        IN  IF raised THEN [st EXCEPT !.err = "UserError", !.calls = calls1]
            ELSE IF kind = "CalcPath"
            THEN LET r == put_leaves(st.result, out,
                              iter_leaf_path_parts(obj.output_type),
                              ppath.scope, ppath.path)
                 IN  [err |-> r.err, result |-> r.result, calls |-> calls1]
            ELSE [err |-> "", result |-> Put(st.result, ppath, out), calls |-> calls1]

\* One pass of the loop of lines 36-66 for node ppath.  st is [err, result,
\* calls]; fail_at is the number of the user-function call that raises (0:
\* none does).
eval_node(P, S, edges, st, ppath, fail_at) ==
    IF ppath \in DOMAIN st.result THEN st
    ELSE
    LET predecessors == Predecessors(edges, ppath)
        kind == ppath.path.kind
        regs == IF kind = "CalcPath" THEN S[ppath.scope].calculations
                ELSE S[ppath.scope].verifications
    IN  IF ~(predecessors \subseteq DOMAIN st.result)
        THEN [st EXCEPT !.err = "KeyError:predecessor-values"]
        ELSE IF kind = "ModelPath"
        THEN [st EXCEPT !.err = "TypeError:unsupported-path-type"]
        ELSE IF ~HasKey(regs, ppath.path.root)
        THEN [st EXCEPT !.err = "KeyError:not-registered"]
        ELSE
        LET obj == Lookup(regs, ppath.path.root)
            iv  == input_values_of(obj.dep_ppaths, predecessors, st.result)
            raised == (Len(st.calls) + 1 = fail_at)
            calls1 == Append(st.calls,
                          Call(ppath, obj.func, iv.values, DOMAIN st.result, raised))
            out == Apply(obj.func, iv.values)
        IN  IF iv.err # "" THEN [st EXCEPT !.err = iv.err]
            ELSE IF raised THEN [st EXCEPT !.err = "UserError", !.calls = calls1]
            ELSE IF kind = "CalcPath"
            THEN LET r == put_leaves(st.result, out,
                              iter_leaf_path_parts(obj.output_type),
                              ppath.scope, ppath.path)
                 IN  [err |-> r.err, result |-> r.result, calls |-> calls1]
            ELSE [err |-> "", result |-> Put(st.result, ppath, out), calls |-> calls1]

RECURSIVE eval_loop_continue(_, _, _, _, _, _)
\* The loop with every exception of a pass caught: it goes on to the next
\* node.
eval_loop_continue(P, S, edges, st, order, fail_at) ==
    IF order = <<>> THEN st
    ELSE eval_loop_continue(P, S, edges,
             [eval_node(P, S, edges, st, Head(order), fail_at) EXCEPT !.err = ""],
             Tail(order), fail_at)

RECURSIVE eval_loop(_, _, _, _, _, _)
\* The loop over eval_order; an exception ends it.
eval_loop(P, S, edges, st, order, fail_at) ==
    IF order = <<>> \/ st.err # "" THEN st
    ELSE eval_loop(P, S, edges, eval_node(P, S, edges, st, Head(order), fail_at),
                   Tail(order), fail_at)

\* What one call of evaluate_project leaves behind: the exception raised
\* ("" when it returned), the value returned (<<result>>, or <<>> when it
\* raised), the log of user-function calls, the graph and the evaluation
\* order.  hash_flip is the iteration order of the graph's sets in the
\* interpreter process of the call.
evaluate_project(P, S, model_data, fail_at, hash_flip) ==
    LET h == hydrate_models(P, S, model_data, EmptyResult)
        g == build_dependencies_graph(P, S)
        o == topological_sort(g.edges, hash_flip)
        st == eval_loop(P, S, g.edges, [err |-> "", result |-> h.result, calls |-> <<>>],
                        o.order, fail_at)
        Out(err, stage, returned, calls, edges, order) ==
            [status |-> IF err = "" THEN "returned" ELSE "raised",
             err |-> err, stage |-> stage, returned |-> returned, calls |-> calls,
             edges |-> edges, order |-> order, model_data |-> model_data]
    IN  IF h.err # "" THEN Out(h.err, "hydrate", <<>>, <<>>, <<>>, <<>>)
        ELSE IF g.err # "" THEN Out(g.err, "build", <<>>, <<>>, <<>>, <<>>)
        ELSE IF o.err # "" THEN Out(o.err, "sort", <<>>, <<>>, g.edges, o.order)
        ELSE IF st.err # "" THEN Out(st.err, "loop", <<>>, st.calls, g.edges, o.order)
        ELSE Out("", "done", <<st.result>>, st.calls, g.edges, o.order)

\* model_data covering every scope of the project that has a root model.
CoveringModelData(P, S) ==
    LET with == SelectSeq(P, LAMBDA s : S[s].root_model # "None")
    IN  [i \in DOMAIN with |-> <<with[i], Instance(S[with[i]].root_model)>>]

----------------------------------------------------------------------------
(* Path strings (_path.py).  A Python string is the sequence of its        *)
(* characters, a character a string of length one.  The key of an item     *)
(* part read from a string is StrKey(k), a str, or TupleKey(ks), a tuple   *)
(* of str.                                                                 *)

StrKey(k) == <<"str", k>>
TupleKey(ks) == <<"tuple", ks>>

\* str.strip(), on blanks.
RECURSIVE lstrip(_)
lstrip(s) == IF s # <<>> /\ Head(s) = " " THEN lstrip(Tail(s)) ELSE s

RECURSIVE rstrip(_)
rstrip(s) ==
    IF s # <<>> /\ s[Len(s)] = " " THEN rstrip(SubSeq(s, 1, Len(s) - 1)) ELSE s

strip(s) == rstrip(lstrip(s))

\* str.startswith.
startswith(s, prefix) ==
    Len(prefix) <= Len(s) /\ SubSeq(s, 1, Len(prefix)) = prefix

\* The least index from i on at which s holds a character of stops;
\* Len(s) + 1 when there is none.
RECURSIVE scan(_, _, _)
scan(s, i, stops) ==
    IF i > Len(s) \/ s[i] \in stops THEN i ELSE scan(s, i + 1, stops)

\* key_str.split(",").
RECURSIVE split_comma(_)
split_comma(s) ==
    LET j == scan(s, 1, {","})
    IN  IF j > Len(s) THEN <<s>>
        ELSE <<SubSeq(s, 1, j - 1)>> \o split_comma(SubSeq(s, j + 1, Len(s)))

\* The key of a bracket's text (lines 81-86).
\* The key of a bracket were no blank stripped from it.
item_key_unstripped(key_str) ==
    IF "," \in Range(key_str)
    THEN TupleKey(split_comma(key_str))
    ELSE StrKey(key_str)

item_key(key_str) ==
    IF "," \in Range(key_str)
    THEN LET ks == split_comma(key_str)
         IN  TupleKey([n \in DOMAIN ks |-> strip(ks[n])])
    ELSE StrKey(strip(key_str))

\* The while loop of Path.parse (lines 67-91) from index i on: [err, parts].
RECURSIVE parse_parts(_, _, _)
parse_parts(s, i, parts) ==
    IF i > Len(s) THEN [err |-> "", parts |-> parts]
    ELSE IF s[i] = "."
    THEN LET j == scan(s, i + 1, {".", "["})
         IN  parse_parts(s, j, Append(parts, AttributePart(SubSeq(s, i + 1, j - 1))))
    ELSE IF s[i] = "["
    THEN LET j == scan(s, i + 1, {"]"})
         IN  parse_parts(s, j + 1,
                 Append(parts, ItemPart(item_key(SubSeq(s, i + 1, j - 1)))))
    ELSE [err |-> "ValueError:unexpected-character", parts |-> parts]

\* cls(root=..., parts=...): the dataclass with its __post_init__.
\* [err, path].
\* A path object were its __post_init__ to test nothing.
new_path_unchecked(cls, root, parts) ==
    [err |-> "", path |-> [kind |-> cls, root |-> root, parts |-> parts]]

new_path(cls, root, parts) ==
    LET p == [kind |-> cls, root |-> root, parts |-> parts]
    IN  IF cls = "ModelPath" /\ root # <<"$">>
        THEN [err |-> "ValueError:model-root", path |-> p]
        ELSE IF cls = "CalcPath" /\ ~startswith(root, <<"@">>)
        THEN [err |-> "ValueError:calc-root", path |-> p]
        ELSE IF cls = "VerificationPath" /\ ~startswith(root, <<"?">>)
        THEN [err |-> "ValueError:verification-root", path |-> p]
        ELSE IF cls = "VerificationPath" /\ parts # <<>>
        THEN [err |-> "ValueError:verification-parts", path |-> p]
        ELSE [err |-> "", path |-> p]

\* Path.parse: [err, path].
Path_parse(cls, path_str) ==
    LET s == strip(path_str)
        root_len == scan(s, 1, {".", "["}) - 1
        ps == parse_parts(SubSeq(s, root_len + 1, Len(s)), 1, <<>>)
    IN  IF root_len = Len(s) THEN new_path(cls, s, <<>>)
        ELSE IF ps.err # "" THEN [err |-> ps.err, path |-> <<>>]
        ELSE new_path(cls, SubSeq(s, 1, root_len), ps.parts)

\* parse_path: [err, path].
parse_path(path_str) ==
    LET s == strip(path_str)
    IN  IF startswith(s, <<"$">>) THEN Path_parse("ModelPath", s)
        ELSE IF startswith(s, <<"@">>) THEN Path_parse("CalcPath", s)
        ELSE IF startswith(s, <<"?">>) THEN Path_parse("VerificationPath", s)
        ELSE [err |-> "ValueError:unknown-path-type", path |-> <<>>]

\* ", ".join of strings.
RECURSIVE join_comma_blank(_)
join_comma_blank(ss) ==
    IF ss = <<>> THEN <<>>
    ELSE IF Len(ss) = 1 THEN ss[1]
    ELSE ss[1] \o <<",", " ">> \o join_comma_blank(Tail(ss))

\* repr of a str without quote characters.
repr_str(k) == <<"'">> \o k \o <<"'">>

\* f"{key}": a str as it is, a tuple as Python writes tuples.
format_key(key) ==
    IF key[1] = "str" THEN key[2]
    ELSE LET ks == key[2]
             inner == join_comma_blank([n \in DOMAIN ks |-> repr_str(ks[n])])
         IN  <<"(">> \o inner \o (IF Len(ks) = 1 THEN <<",">> ELSE <<>>) \o <<")">>

\* Path.__str__.
RECURSIVE Path_str_parts(_)
Path_str_parts(parts) ==
    IF parts = <<>> THEN <<>>
    ELSE LET part == Head(parts)
         IN  (IF part[1] = "attr" THEN <<".">> \o part[2]
              ELSE <<"[">> \o format_key(part[2]) \o <<"]">>)
             \o Path_str_parts(Tail(parts))

Path_str(p) == p.root \o Path_str_parts(p.parts)

----------------------------------------------------------------------------
(* The state: the Scope objects (scopes), the scopes added to the Project  *)
(* in order (project), the scope attribute of every Ref object (refs), the *)
(* exception of the last registry operation (lastErr), whether an          *)
(* evaluation has been run (frozen) and what the last one left (run).      *)
(* The behaviours explored are those of a script that finishes authoring   *)
(* before it evaluates: the registry operations are taken while ~frozen.   *)

IdleRun ==
    [status |-> "idle", err |-> "", stage |-> "idle", returned |-> <<>>,
     calls |-> <<>>, edges |-> <<>>, order |-> <<>>, model_data |-> <<>>]

\* No path string has been given.
IdlePath ==
    [stage |-> "idle", via |-> "", text |-> <<>>, wellformed |-> FALSE,
     tree |-> [root |-> <<>>, segs |-> <<>>],
     parsed |-> [err |-> "", path |-> <<>>], shown |-> <<>>,
     reparsed |-> [err |-> "", path |-> <<>>]]

\* No Table has been asked for.
IdleTable ==
    [stage |-> "idle", input |-> <<>>, err |-> "", key_type |-> "",
     expected_keys |-> {}, items |-> <<>>, ops |-> 0]

\* The classes with a context stack of their own, and the one all share.
ContextClasses == {"TestContextMixin", "TestContextMixin2"}

\* No with block is open: the stacks (_thread_local.stack of each class and
\* _thread_local_classwide.stack) are empty; blocks are the with blocks the
\* thread is inside, innermost last; raising, an exception is on its way out.
\* What current() returns when the stack is empty.
NoContext == <<"None", "None">>

\* left holds the blocks that the last exception raised has left.
IdleContext ==
    [stacks |-> [c \in ContextClasses \cup {"ContextMixin"} |-> <<>>],
     classwide |-> <<>>, blocks |-> <<>>, raising |-> FALSE, left |-> <<>>]

\* The threads, and what threading.local keeps for each: the stacks that
\* the thread sees and, calls, the __enter__ and __exit__ calls it has made.
Threads == {"t1", "t2"}
IdleLocals ==
    [t \in Threads |->
        [stacks |-> [c \in ContextClasses \cup {"ContextMixin"} |-> <<>>],
         classwide |-> <<>>, calls |-> <<>>]]

\* No type has been asked for and no schema walked.
IdleProbe == [op |-> "idle", arg |-> <<>>, out |-> <<>>]

InitRegistry ==
    /\ scopes = [s \in ScopeNames |-> NewScope]
    /\ project = <<>>
    /\ refs = InitialRefs
    /\ lastErr = ""
    /\ frozen = FALSE
    /\ run = IdleRun

Init ==
    /\ InitRegistry
    /\ parsing = IdlePath
    /\ table = IdleTable
    /\ context = IdleContext
    /\ locals = IdleLocals
    /\ probe = IdleProbe

\* Project.add_scope.
add_scope(s) ==
    /\ ~frozen
    /\ IF s \in Range(project)
       THEN /\ lastErr' = "KeyError:scope-exists"
            /\ UNCHANGED project
       ELSE /\ lastErr' = ""
            /\ project' = Append(project, s)
    /\ UNCHANGED <<scopes, refs, frozen, run>>
    /\ UNCHANGED aside

\* Scope.root_model()(model).
root_model(s) ==
    /\ ~frozen
    /\ IF scopes[s].root_model # "None"
       THEN /\ lastErr' = "RuntimeError:root-model-assigned"
            /\ UNCHANGED scopes
       ELSE /\ lastErr' = ""
            /\ scopes' = [scopes EXCEPT ![s].root_model = RootModelOf(s)]
    /\ UNCHANGED <<project, refs, frozen, run>>
    /\ UNCHANGED aside

\* Scope.calculation without the test on the name: the entry is added even
\* when the name is taken.
calculation_unchecked(s, name, imports, f) ==
    /\ ~frozen
    /\ NRegistered < MaxRegs
    /\ LET calculation_name == IF name = "None" THEN f ELSE name
           c == Calculation_post_init(calculation_name, f, s, imports, refs[f])
       IN  /\ refs' = [refs EXCEPT ![f] = c.rs]
           /\ IF c.err # ""
              THEN /\ lastErr' = c.err
                   /\ UNCHANGED scopes
              ELSE /\ lastErr' = ""
                   /\ scopes' = [scopes EXCEPT ![s].calculations =
                                    Append(@, <<calculation_name, c.obj>>)]
    /\ UNCHANGED <<project, frozen, run>>
    /\ UNCHANGED aside

\* Scope.calculation(name, imports)(func); name "None" takes func.__name__.
calculation(s, name, imports, f) ==
    /\ ~frozen
    /\ NRegistered < MaxRegs
    /\ LET calculation_name == IF name = "None" THEN f ELSE name
           c == Calculation_post_init(calculation_name, f, s, imports, refs[f])
       IN  /\ refs' = [refs EXCEPT ![f] = c.rs]
           /\ IF c.err # ""
              THEN /\ lastErr' = c.err
                   /\ UNCHANGED scopes
              ELSE IF HasKey(scopes[s].calculations, calculation_name)
              THEN /\ lastErr' = "KeyError:calculation-exists"
                   /\ UNCHANGED scopes
              ELSE /\ lastErr' = ""
                   /\ scopes' = [scopes EXCEPT ![s].calculations =
                                    Append(@, <<calculation_name, c.obj>>)]
    /\ UNCHANGED <<project, frozen, run>>
    /\ UNCHANGED aside

\* Scope.verification(name, imports)(func).
verification(s, name, imports, f) ==
    /\ ~frozen
    /\ NRegistered < MaxRegs
    /\ LET verification_name == IF name = "None" THEN f ELSE name
           v == Verification_post_init(verification_name, f, s, imports, refs[f])
       IN  /\ refs' = [refs EXCEPT ![f] = v.rs]
           /\ IF v.err # ""
              THEN /\ lastErr' = v.err
                   /\ UNCHANGED scopes
              ELSE IF HasKey(scopes[s].verifications, verification_name)
              THEN /\ lastErr' = "KeyError:verification-exists"
                   /\ UNCHANGED scopes
              ELSE /\ lastErr' = ""
                   /\ scopes' = [scopes EXCEPT ![s].verifications =
                                    Append(@, <<verification_name, v.obj>>)]
    /\ UNCHANGED <<project, frozen, run>>
    /\ UNCHANGED aside

\* evaluate_project(project, model_data) on the registry as it stands.
evaluate(model_data, fail_at, hash_flip) ==
    /\ frozen' = TRUE
    /\ run' = evaluate_project(project, scopes, model_data, fail_at, hash_flip)
    /\ UNCHANGED <<scopes, project, refs, lastErr>>
    /\ UNCHANGED aside

\* The decorator applications of the authoring code: scope, name argument,
\* imports argument and the decorated function.
Decoration(s, name, imports, f) == [scope |-> s, name |-> name, imports |-> imports, func |-> f]

CalcDecorations ==
    { Decoration("Power", "None", {}, "solar_heat"),
      Decoration("Thermal", "None", {"Power"}, "calculate_temperature"),
      Decoration("Thermal", "None", {}, "calculate_temperature"),
      Decoration("Power", "None", {}, "double"),
      Decoration("Thermal", "None", {}, "double"),
      Decoration("Power", "None", {}, "triple"),
      Decoration("Power", "None", {}, "calc_a"),
      Decoration("Power", "None", {}, "calc_b"),
      Decoration("Power", "None", {}, "output_table"),
      Decoration("Power", "None", {}, "use_panel") }

VerifDecorations ==
    { Decoration("Power", "None", {"Thermal"}, "hot_enough"),
      Decoration("Power", "None", {}, "small_enough") }

\* The scopes whose authors declare a root model.
RootModelScopes == {"Power"}

\* The authoring code alone: the registry is built and never evaluated.
Authoring ==
    \/ \E s \in ScopeNames : add_scope(s)
    \/ \E s \in RootModelScopes : root_model(s)
    \/ \E d \in CalcDecorations : calculation(d.scope, d.name, d.imports, d.func)
    \/ \E d \in VerifDecorations : verification(d.scope, d.name, d.imports, d.func)

AuthoringSpec == Init /\ [][Authoring]_vars

Next ==
    \/ Authoring
    \/ \E md \in {CoveringModelData(project, scopes), <<>>}, k \in 0..MaxFailAt,
             hash_flip \in BOOLEAN :
          evaluate(md, k, hash_flip)

Spec == Init /\ [][Next]_vars

\* A second authoring script, on the return annotations and the names: the
\* decorated functions are a calculation without a return annotation, the
\* verifications without one, with -> float, and returning a number, and
\* small_enough and no_return_calc registered under the name of the
\* calculation double.
RegistryCalcDecorations ==
    { Decoration("Power", "None", {}, "double"),
      Decoration("Power", "None", {}, "no_return_calc"),
      Decoration("Power", "double", {}, "no_return_calc") }

RegistryVerifDecorations ==
    { Decoration("Power", "None", {}, "small_enough"),
      Decoration("Power", "double", {}, "small_enough"),
      Decoration("Power", "None", {}, "no_return_verif"),
      Decoration("Power", "None", {}, "float_verif"),
      Decoration("Power", "None", {}, "bad_verif") }

RegistryNext ==
    \/ \E s \in ScopeNames : add_scope(s)
    \/ \E s \in RootModelScopes : root_model(s)
    \/ \E d \in RegistryCalcDecorations : calculation(d.scope, d.name, d.imports, d.func)
    \/ \E d \in RegistryVerifDecorations : verification(d.scope, d.name, d.imports, d.func)
    \/ \E k \in 0..MaxFailAt, hash_flip \in BOOLEAN :
          evaluate(CoveringModelData(project, scopes), k, hash_flip)

RegistrySpec == Init /\ [][RegistryNext]_vars

\* A third script, on the schemas: panel_of returns a record of two fields
\* from the leaf $.x and panel_ok reads its output; the script asks the
\* project for the type of a path and walks a schema and a value of it.
SchemaCalcDecorations == { Decoration("Power", "None", {}, "panel_of") }
SchemaVerifDecorations == { Decoration("Power", "None", {}, "panel_ok") }

\* The paths whose type is asked for.
TypeQueries ==
    {ProjectPath(s, q) : s \in {"Power", "Thermal"},
        q \in { ModelPath(<<AttributePart("x")>>),
                ModelPath(<<AttributePart("nope")>>),
                ModelPath(<<AttributePart("solar_panel"), AttributePart("area")>>),
                ModelPath(<<AttributePart("input_table"), ItemPart("option_a")>>),
                ModelPath(<<AttributePart("x"), ItemPart("option_a")>>),
                CalcPath("panel_of", <<>>),
                CalcPath("panel_of", <<AttributePart("area")>>),
                CalcPath("nope", <<>>),
                VerificationPath("panel_ok"),
                VerificationPath("nope") }}

\* The schemas walked.
Schemas == {"float", "SolarPanelModel", "SolarPanelResult", "ThermalModel", "PowerModel"}

\* project.get_type(ppath).
ask_type(ppath) ==
    /\ probe' = [op |-> "get_type", arg |-> ppath,
                 out |-> get_type(project, scopes, ppath)]
    /\ UNCHANGED <<registry, parsing, table, context, locals>>

\* list(iter_leaf_path_parts(model)), and get_value_by_parts(data, parts)
\* for each of the parts, data a value of the schema.
walk(model, data) ==
    /\ LET leaves == iter_leaf_path_parts(model)
       IN  probe' = [op |-> "iter_leaf_path_parts", arg |-> <<model, data>>,
                     out |-> [leaves |-> leaves,
                              values |-> [n \in DOMAIN leaves |->
                                             get_value_by_parts(data, leaves[n])]]]
    /\ UNCHANGED <<registry, parsing, table, context, locals>>

SchemaNext ==
    \/ \E s \in ScopeNames : add_scope(s)
    \/ \E s \in RootModelScopes : root_model(s)
    \/ \E d \in SchemaCalcDecorations : calculation(d.scope, d.name, d.imports, d.func)
    \/ \E d \in SchemaVerifDecorations : verification(d.scope, d.name, d.imports, d.func)
    \/ \E k \in 0..MaxFailAt, hash_flip \in BOOLEAN :
          evaluate(CoveringModelData(project, scopes), k, hash_flip)
    \/ \E ppath \in TypeQueries : ask_type(ppath)
    \/ \E model \in Schemas : walk(model, ValueOf(model))

SchemaSpec == Init /\ [][SchemaNext]_vars

----------------------------------------------------------------------------
(* Parsing and writing path strings.  A well-formed string is written from *)
(* a root and at most MaxSegs segments; a segment is <<"attr", name>> or   *)
(* <<"item", raw, keys>>, raw the comma-separated texts of the bracket and *)
(* keys the keys they stand for.                                           *)

MaxSegs == 2

Roots == { <<"$">>, <<"@", "c">> }

Segments ==
    { <<"attr", <<"t">>>>,
      <<"attr", <<"y", "z">>>>,
      <<"item", << <<"k">> >>, << <<"k">> >> >>,
      <<"item", << <<" ", "k", " ">> >>, << <<"k">> >> >>,
      <<"item", << <<"k">>, <<"m">> >>, << <<"k">>, <<"m">> >> >>,
      <<"item", << <<"k", " ">>, <<" ", "m">> >>, << <<"k">>, <<"m">> >> >> }

SegSeqs == UNION {[1..n -> Segments] : n \in 0..MaxSegs}

Trees ==
    {[root |-> r, segs |-> ss] : r \in Roots, ss \in SegSeqs}
    \cup {[root |-> <<"?", "v">>, segs |-> <<>>]}

\* ",".join and ", ".join of the texts.
RECURSIVE Join(_, _)
Join(ss, sep) ==
    IF ss = <<>> THEN <<>>
    ELSE IF Len(ss) = 1 THEN ss[1]
    ELSE ss[1] \o sep \o Join(Tail(ss), sep)

\* The string as its author wrote it, and with the blanks inside brackets
\* normalised.
RECURSIVE Written(_)
Written(segs) ==
    IF segs = <<>> THEN <<>>
    ELSE (IF Head(segs)[1] = "attr" THEN <<".">> \o Head(segs)[2]
          ELSE <<"[">> \o Join(Head(segs)[2], <<",">>) \o <<"]">>)
         \o Written(Tail(segs))

RECURSIVE Canonical(_)
Canonical(segs) ==
    IF segs = <<>> THEN <<>>
    ELSE (IF Head(segs)[1] = "attr" THEN <<".">> \o Head(segs)[2]
          ELSE <<"[">> \o Join(Head(segs)[3], <<",", " ">>) \o <<"]">>)
         \o Canonical(Tail(segs))

\* The parts the segments stand for.
PartsOf(segs) ==
    [n \in DOMAIN segs |->
        IF segs[n][1] = "attr" THEN AttributePart(segs[n][2])
        ELSE IF Len(segs[n][3]) = 1 THEN ItemPart(StrKey(segs[n][3][1]))
        ELSE ItemPart(TupleKey(segs[n][3]))]

\* Strings that are not well formed.
Malformed ==
    { <<"$", ".", "t", "[", "k">>,
      <<"@", "c", "[", "k", ",", "m">>,
      <<"$", "[", "k", "]", ".", "t", "[">>,
      <<"$", "[", "k", "]", "t">>,
      <<"x", ".", "t">>,
      <<"t">>,
      <<>>,
      <<" ", ".", "t">>,
      <<"?", "v", ".", "t">>,
      <<"?", "v", "[", "k", "]">>,
      <<"$", "t", ".", "y">>,
      <<"$", "t">>,
      <<" ", "t", " ">> }

PathInputs ==
    {[IdlePath EXCEPT !.stage = "input", !.text = tr.root \o Written(tr.segs),
                      !.wellformed = TRUE, !.tree = tr] : tr \in Trees}
    \cup {[IdlePath EXCEPT !.stage = "input", !.text = s] : s \in Malformed}

PathInit ==
    /\ InitRegistry
    /\ parsing \in PathInputs \cup {IdlePath}
    /\ table = IdleTable
    /\ context = IdleContext
    /\ locals = IdleLocals
    /\ probe = IdleProbe

\* What the constructors ModelPath(...), CalcPath(...) and
\* VerificationPath(...) are called with.
PathClasses == {"ModelPath", "CalcPath", "VerificationPath"}
ConstructorRoots ==
    { <<"$">>, <<"$", "t">>, <<"@", "c">>, <<"c">>, <<"?", "v">>, <<"v">> }
ConstructorParts ==
    { <<>>, <<AttributePart(<<"t">>)>>,
      <<ItemPart(TupleKey(<< <<"k">>, <<"m">> >>))>> }

\* cls(root=root, parts=parts).
construct(cls, root, parts) ==
    /\ parsing.stage = "idle"
    /\ parsing' = [parsing EXCEPT !.stage = "parsed", !.via = "constructor",
                                  !.parsed = new_path(cls, root, parts)]
    /\ UNCHANGED <<registry, table, context, locals, probe>>

\* parse_path(parsing.text).
parse ==
    /\ parsing.stage = "input"
    /\ parsing' = [parsing EXCEPT !.stage = "parsed", !.via = "parse_path",
                                  !.parsed = parse_path(parsing.text)]
    /\ UNCHANGED <<registry, table, context, locals, probe>>

\* str(p) of the path parsed, and parse_path of that string.
show ==
    /\ parsing.stage = "parsed"
    /\ parsing.parsed.err = ""
    /\ LET s == Path_str(parsing.parsed.path)
       IN  parsing' = [parsing EXCEPT !.stage = "shown", !.shown = s,
                                !.reparsed = parse_path(s)]
    /\ UNCHANGED <<registry, table, context, locals, probe>>

PathNext ==
    \/ parse
    \/ show
    \/ \E cls \in PathClasses, root \in ConstructorRoots, parts \in ConstructorParts :
          construct(cls, root, parts)

PathSpec == PathInit /\ [][PathNext]_vars

----------------------------------------------------------------------------
(* Table (_table.py).  A key is a value <<type, text>> (a StrEnum member   *)
(* or a plain str) or a tuple <<"tuple", components>> of them.  A StrEnum  *)
(* member is a str: it equals, and hashes as, every str of the same text.  *)

MaxItems == 4
MaxOps == 2

EnumMembers == [Option |-> {"a", "b"}, Mode |-> {"x", "y"}]
IsStrEnum(type) == type \in DOMAIN EnumMembers
Member(type, text) == <<type, text>>
TupleOf(components) == <<"tuple", components>>
IsTuple(key) == key[1] = "tuple"

\* k1 == k2 as dict, set and frozenset see it.
PyEq(k1, k2) ==
    IF IsTuple(k1) /\ IsTuple(k2)
    THEN /\ Len(k1[2]) = Len(k2[2])
         /\ \A n \in DOMAIN k1[2] : k1[2][n][2] = k2[2][n][2]
    ELSE ~IsTuple(k1) /\ ~IsTuple(k2) /\ k1[2] = k2[2]
PyIn(k, keys) == \E e \in keys : PyEq(k, e)

\* mapping[key] = value: an equal key keeps its place and its key object.
dict_setitem(mapping, key, value) ==
    IF \E n \in DOMAIN mapping : PyEq(mapping[n][1], key)
    THEN [n \in DOMAIN mapping |->
            IF PyEq(mapping[n][1], key) THEN <<mapping[n][1], value>> ELSE mapping[n]]
    ELSE Append(mapping, <<key, value>>)

\* dict(mapping_or_iterable, **kwargs).
RECURSIVE dict_of(_, _)
dict_of(items, mapping) ==
    IF items = <<>> THEN mapping
    ELSE dict_of(Tail(items), dict_setitem(mapping, Head(items)[1], Head(items)[2]))

\* frozenset(key_type), and the product of list(key_type) over key_types.
EnumKeys(type) == {Member(type, text) : text \in EnumMembers[type]}
ProductKeys(key_types) ==
    {TupleOf(c) : c \in {f \in [DOMAIN key_types -> UNION {EnumKeys(ty) : ty \in DOMAIN EnumMembers}] :
                            \A n \in DOMAIN key_types : f[n][1] = key_types[n]}}

\* Table.__init__: [err, key_type, expected_keys, items].
Table_init(items) ==
    LET mapping == dict_of(items, <<>>)
        keys == {mapping[n][1] : n \in DOMAIN mapping}
        key_sample == mapping[1][1]
        key_types == [n \in DOMAIN key_sample[2] |-> key_sample[2][n][1]]
        expected_keys ==
            IF IsTuple(key_sample) THEN ProductKeys(key_types) ELSE EnumKeys(key_sample[1])
        fail(e) == [err |-> e, key_type |-> "", expected_keys |-> {}, items |-> <<>>]
    IN  IF Len(mapping) = 0 THEN fail("ValueError:empty")
        ELSE IF IsTuple(key_sample) /\ \E n \in DOMAIN key_types : ~IsStrEnum(key_types[n])
        THEN fail("TypeError:key-types")
        ELSE IF ~IsTuple(key_sample) /\ ~IsStrEnum(key_sample[1])
        THEN fail("TypeError:key-type")
        ELSE IF \E e \in expected_keys : ~PyIn(e, keys)
        THEN fail("ValueError:missing-keys")
        ELSE IF \E k \in keys : ~PyIn(k, expected_keys)
        THEN fail("ValueError:disallowed-keys")
        ELSE [err |-> "", key_type |-> key_sample[1],
              expected_keys |-> expected_keys, items |-> mapping]

\* The keys that Table(...) and the dict operations are called with.
KeyMenu ==
    { Member("Option", "a"), Member("Option", "b"), Member("str", "b"),
      Member("Mode", "x"), Member("str", "z"),
      TupleOf(<<Member("Option", "a"), Member("Mode", "x")>>),
      TupleOf(<<Member("Option", "a"), Member("Mode", "y")>>),
      TupleOf(<<Member("Option", "b"), Member("Mode", "x")>>),
      TupleOf(<<Member("Option", "b"), Member("Mode", "y")>>),
      TupleOf(<<Member("Option", "b"), Member("str", "y")>>),
      TupleOf(<<Member("Mode", "x"), Member("Option", "a")>>) }

\* The key-value pairs in the order given; the n-th value is n.
TableInput(keys) == [n \in DOMAIN keys |-> <<keys[n], n>>]

TableInit ==
    /\ InitRegistry
    /\ parsing = IdlePath
    /\ context = IdleContext
    /\ locals = IdleLocals
    /\ probe = IdleProbe
    /\ \E len \in 0..MaxItems : \E keys \in [1..len -> KeyMenu] :
          table = [IdleTable EXCEPT !.input = TableInput(keys)]

\* Table(input).
Table_new ==
    /\ table.stage = "idle"
    /\ LET t == Table_init(table.input)
       IN  table' = [table EXCEPT !.stage = IF t.err = "" THEN "built" ELSE "rejected",
                                  !.err = t.err, !.key_type = t.key_type,
                                  !.expected_keys = t.expected_keys, !.items = t.items]
    /\ UNCHANGED <<registry, parsing, context, locals, probe>>

\* t[key] = 0, inherited from dict.
setitem(key) ==
    /\ table.stage = "built"
    /\ table.ops < MaxOps
    /\ table' = [table EXCEPT !.items = dict_setitem(table.items, key, 0),
                              !.err = "", !.ops = @ + 1]
    /\ UNCHANGED <<registry, parsing, context, locals, probe>>

\* del t[key], inherited from dict.
delitem(key) ==
    /\ table.stage = "built"
    /\ table.ops < MaxOps
    /\ table' = [table EXCEPT
                    !.items = SelectSeq(table.items, LAMBDA kv : ~PyEq(kv[1], key)),
                    !.err = IF PyIn(key, {table.items[n][1] : n \in DOMAIN table.items})
                            THEN "" ELSE "KeyError",
                    !.ops = @ + 1]
    /\ UNCHANGED <<registry, parsing, context, locals, probe>>

\* t.expected_keys = frozenset(): the property has no setter.
set_expected_keys ==
    /\ table.stage = "built"
    /\ table.ops < MaxOps
    /\ table' = [table EXCEPT !.err = "AttributeError", !.ops = @ + 1]
    /\ UNCHANGED <<registry, parsing, context, locals, probe>>

TableNext ==
    \/ Table_new
    \/ \E key \in KeyMenu : setitem(key)
    \/ \E key \in KeyMenu : delitem(key)
    \/ set_expected_keys

TableSpec == TableInit /\ [][TableNext]_vars

----------------------------------------------------------------------------
(* ContextMixin (_utils.py): with blocks of one thread.                    *)

MaxDepth == 3

\* An instance is <<class, name>>.
ContextInstances == {<<c, n>> : c \in ContextClasses, n \in {"outer", "inner"}}

\* cls._thread_local were it the one of ContextMixin for every subclass.
thread_local_shared(cls) == "ContextMixin"

\* cls._thread_local: __init_subclass__ gives every subclass its own.
thread_local(cls) == cls

\* cls.current().
current(c, cls) ==
    LET stack == c.stacks[thread_local(cls)]
    IN  IF Len(stack) = 0 THEN NoContext ELSE stack[Len(stack)]

\* self.__enter__() and self.__exit__(...) on the stacks.
Context_enter(c, self) ==
    [c EXCEPT !.stacks[thread_local(self[1])] = Append(@, self),
              !.classwide = Append(@, self)]
Context_exit(c, self) ==
    [c EXCEPT !.stacks[thread_local(self[1])] = SubSeq(@, 1, Len(@) - 1),
              !.classwide = SubSeq(@, 1, Len(@) - 1)]

ContextInit ==
    /\ InitRegistry
    /\ parsing = IdlePath
    /\ table = IdleTable
    /\ context = IdleContext
    /\ locals = IdleLocals
    /\ probe = IdleProbe

\* with self: ... is entered.
enter(self) ==
    /\ ~context.raising
    /\ Len(context.blocks) < MaxDepth
    /\ context' = [Context_enter(context, self) EXCEPT !.blocks = Append(@, self)]
    /\ UNCHANGED <<registry, parsing, table, locals, probe>>

\* The body of the innermost with block ends, or an exception leaves the
\* block: __exit__ runs and, returning None, lets the exception go on.
exit ==
    /\ context.blocks # <<>>
    /\ context' = [Context_exit(context, context.blocks[Len(context.blocks)])
                     EXCEPT !.blocks = SubSeq(@, 1, Len(@) - 1),
                            !.left = IF context.raising
                                     THEN Append(@, context.blocks[Len(context.blocks)])
                                     ELSE @]
    /\ UNCHANGED <<registry, parsing, table, locals, probe>>

\* The body of the innermost with block raises.
raise ==
    /\ ~context.raising
    /\ context.blocks # <<>>
    /\ context' = [context EXCEPT !.raising = TRUE, !.left = <<>>]
    /\ UNCHANGED <<registry, parsing, table, locals, probe>>

\* An except clause around the blocks left so far takes the exception.
except ==
    /\ context.raising
    /\ context' = [context EXCEPT !.raising = FALSE]
    /\ UNCHANGED <<registry, parsing, table, locals, probe>>

ContextNext ==
    \/ \E self \in ContextInstances : enter(self)
    \/ exit
    \/ raise
    \/ except

ContextSpec == ContextInit /\ [][ContextNext]_vars

----------------------------------------------------------------------------
(* ContextMixin: __enter__ and __exit__ called by two threads, in any      *)
(* order.                                                                  *)

MaxCalls == 4

ThreadInstances == {<<c, "outer">> : c \in ContextClasses}

\* The attributes of a threading.local were they those of a plain object,
\* the same for every thread.
local_of_shared(t) == "t1"

\* The attributes of a threading.local as thread t sees them.
local_of(t) == t

\* self.__exit__(None, None, None): the first get(block=False) raises
\* queue.Empty when the stack of the class is empty.
Context_exit_call(c, self) ==
    IF c.stacks[thread_local(self[1])] = <<>> THEN c ELSE Context_exit(c, self)

\* cls.classwide_stack_queue(cls) and cls.current_classwide(cls).
classwide_stack_queue(c, cls) == SelectSeq(c.classwide, LAMBDA item : item[1] = cls)
current_classwide(c, cls) ==
    LET queue == classwide_stack_queue(c, cls)
    IN  IF queue = <<>> THEN NoContext ELSE queue[Len(queue)]

NCalls == Len(locals["t1"].calls) + Len(locals["t2"].calls)

ThreadInit ==
    /\ InitRegistry
    /\ parsing = IdlePath
    /\ table = IdleTable
    /\ context = IdleContext
    /\ locals = IdleLocals
    /\ probe = IdleProbe

\* Thread t calls self.__enter__().
call_enter(t, self) ==
    /\ NCalls < MaxCalls
    /\ LET mine == Context_enter(locals[local_of(t)], self)
           after == [locals EXCEPT ![local_of(t)] = mine]
       IN  locals' = [after EXCEPT ![t].calls = Append(@, <<"enter", self>>)]
    /\ UNCHANGED <<registry, parsing, table, context, probe>>

\* Thread t calls self.__exit__(None, None, None).
call_exit(t, self) ==
    /\ NCalls < MaxCalls
    /\ LET mine == Context_exit_call(locals[local_of(t)], self)
           after == [locals EXCEPT ![local_of(t)] = mine]
       IN  locals' = [after EXCEPT ![t].calls = Append(@, <<"exit", self>>)]
    /\ UNCHANGED <<registry, parsing, table, context, probe>>

ThreadNext ==
    \/ \E t \in Threads, self \in ThreadInstances : call_enter(t, self)
    \/ \E t \in Threads, self \in ThreadInstances : call_exit(t, self)

ThreadSpec == ThreadInit /\ [][ThreadNext]_vars

----------------------------------------------------------------------------
(* Vocabulary of the properties.                                           *)

\* The calculation (verification) names registered in scope s.
CalcNames(s) == Keys(scopes[s].calculations)
VerifNames(s) == Keys(scopes[s].verifications)

\* Every function registered in a scope of the project.
RegisteredFuncs ==
    UNION {CalcNames(s) \cup VerifNames(s) : s \in ScopeNames}

Evaluated == run.status # "idle"
Returned == run.status = "returned"
Result == run.returned[1]

\* The output leaves of calculation `name` of scope s.
OutputLeafKeys(s, name) ==
    Range(calc_dst_ppaths(s, name, Lookup(scopes[s].calculations, name).output_type))

\* The leaves of the root model of scope s.
ModelLeafKeys(s) ==
    IF scopes[s].root_model = "None" THEN {}
    ELSE {ProjectPath(s, ModelPath(l)) :
             l \in Range(iter_leaf_path_parts(scopes[s].root_model))}

\* The calls of the log made for calculation `name` of scope s.
CallsOfCalc(s, name) ==
    {i \in DOMAIN run.calls :
        /\ run.calls[i].node.scope = s
        /\ run.calls[i].node.path.kind = "CalcPath"
        /\ run.calls[i].node.path.root = name}

----------------------------------------------------------------------------
(* C1.  After evaluate_project returns for a project whose model_data      *)
(* covers every scope with a root model, the result has a key for every    *)
(* leaf of every root model, for every output leaf of every registered     *)
(* calculation, whatever the number of its references, and for every       *)
(* registered verification.                                                *)

C1_EvaluatorCompleteness ==
    (Returned /\ run.model_data = CoveringModelData(project, scopes)) =>
        \A s \in Range(project) :
            /\ ModelLeafKeys(s) \subseteq DOMAIN Result
            /\ \A c \in CalcNames(s) : OutputLeafKeys(s, c) \subseteq DOMAIN Result
            /\ \A v \in VerifNames(s) :
                   ProjectPath(s, VerificationPath(v)) \in DOMAIN Result

----------------------------------------------------------------------------
(* C2.  Whenever a calculation or verification function is invoked, every  *)
(* predecessor of its node already has a value in result; a predecessor    *)
(* that is the output of a calculation was stored by an earlier call of    *)
(* that calculation which did not raise.                                   *)

C2_InputsReadyAtCall ==
    \A i \in DOMAIN run.calls :
        LET c == run.calls[i]
        IN  \A p \in Predecessors(run.edges, c.node) :
                /\ p \in c.known
                /\ p.path.kind = "CalcPath" =>
                       \E j \in CallsOfCalc(p.scope, p.path.root) :
                           j < i /\ ~run.calls[j].raised

\* A calculation that consumes another calculation's output was invoked.
C2_Witness ==
    \E i \in DOMAIN run.calls :
        \E p \in Predecessors(run.edges, run.calls[i].node) : p.path.kind = "CalcPath"

----------------------------------------------------------------------------
(* C3.  When the dependency graph has a cycle (calc_a reads @calc_b and    *)
(* calc_b reads @calc_a), both registrations succeed and an evaluation     *)
(* that gets as far as the scheduler fails with the cycle error: it        *)
(* returns no result and calls no function.                                *)

\* Some non-empty set of nodes in which every node has a predecessor.
HasCycle(edges) ==
    \E N \in SUBSET Range(GraphNodes(edges)) :
        /\ N # {}
        /\ \A n \in N : Predecessors(edges, n) \cap N # {}

MutualReads == \E s \in Range(project) : {"calc_a", "calc_b"} \subseteq CalcNames(s)

C3_CycleRejected ==
    (Evaluated /\ run.stage \notin {"hydrate", "build"}
       /\ (MutualReads \/ HasCycle(run.edges))) =>
        /\ run.status = "raised"
        /\ run.err = "CycleError"
        /\ run.returned = <<>>
        /\ run.calls = <<>>

C3_Witness ==
    /\ MutualReads
    /\ HasCycle(run.edges)
    /\ run.err = "CycleError"

----------------------------------------------------------------------------
(* C4.  With solar_heat returning heat_generation = 100 in Power and       *)
(* calculate_temperature in Thermal reading @solar_heat.heat_generation,   *)
(* the evaluation returns, calculate_temperature receives 100, the result  *)
(* holds Thermal::@calculate_temperature.temp_max = 50, and hot_enough,    *)
(* when registered, yields TRUE.                                           *)

SubPathScenario ==
    /\ {"Power", "Thermal"} \subseteq Range(project)
    /\ CalcNames("Power") = {"solar_heat"}
    /\ CalcNames("Thermal") = {"calculate_temperature"}
    /\ VerifNames("Power") \subseteq {"hot_enough"}
    /\ VerifNames("Thermal") = {}

C4_SubPathReference ==
    (Evaluated /\ SubPathScenario /\ run.err # "UserError") =>
        LET temp_max == ProjectPath("Thermal",
                            CalcPath("calculate_temperature", <<AttributePart("temp_max")>>))
            hot == ProjectPath("Power", VerificationPath("hot_enough"))
        IN  /\ Returned
            /\ temp_max \in DOMAIN Result
            /\ Result[temp_max] = 50
            /\ \A i \in CallsOfCalc("Thermal", "calculate_temperature") :
                   run.calls[i].inputs.h = 100
            /\ "hot_enough" \in VerifNames("Power") =>
                   (hot \in DOMAIN Result /\ Result[hot] = TRUE)

----------------------------------------------------------------------------
(* C5.  When a parameter's reference addresses a record ($.solar_panel of  *)
(* use_panel), the function is called with a value that, walked by every   *)
(* leaf part-list of the parameter's type, gives the value result holds    *)
(* for the corresponding predecessor leaf.                                 *)

RecordScenario ==
    /\ "Power" \in Range(project)
    /\ scopes["Power"].root_model # "None"
    /\ RegisteredFuncs = {"use_panel"}
    /\ run.model_data = CoveringModelData(project, scopes)

C5_HydrateFromLeaves ==
    (Evaluated /\ RecordScenario /\ run.err # "UserError") =>
        /\ Returned
        /\ CallsOfCalc("Power", "use_panel") # {}
        /\ \A i \in CallsOfCalc("Power", "use_panel") :
               \A l \in Range(iter_leaf_path_parts("SolarPanelModel")) :
                   LET leaf == ProjectPath("Power",
                                   ModelPath(<<AttributePart("solar_panel")>> \o l))
                       got == get_value_by_parts(run.calls[i].inputs.p, l)
                   IN  got.err = "" /\ got.val = Result[leaf]

----------------------------------------------------------------------------
(* The Table scenario of C6 and C7: output_table, whose return annotation  *)
(* is Table[Option, float] and which reads the table field $.input_table,  *)
(* has been decorated in Power, whose root model is set, and the           *)
(* evaluation is given data for it.                                        *)

TableScenario ==
    /\ "Power" \in Range(project)
    /\ scopes["Power"].root_model # "None"
    /\ refs["output_table"][1] = "Power"
    /\ RegisteredFuncs \subseteq {"output_table"}
    /\ run.model_data = CoveringModelData(project, scopes)

TableKeys == {"option_a", "option_b"}

(* C6.  For a calculation whose declared output type is Table[K, V] the    *)
(* result holds, after the evaluation, one entry per expected key k at     *)
(* CalcPath(name, [Item(k)]), whose value is output[k]; the leaves of the  *)
(* Table schema are exactly the [Item(k)].                                 *)

C6_TablePerKeyLeaves ==
    (Evaluated /\ TableScenario /\ run.err # "UserError") =>
        /\ Returned
        /\ Range(iter_leaf_path_parts("Table[Option,float]"))
               = {<<ItemPart(k)>> : k \in TableKeys}
        /\ \A k \in TableKeys :
               LET key == ProjectPath("Power", CalcPath("output_table", <<ItemPart(k)>>))
               IN  /\ key \in DOMAIN Result
                   /\ Result[key] = 2 * Instance("PowerModel").input_table[k]

(* C7.  For a calculation whose return annotation is Table[K, V] the       *)
(* evaluation stores the whole Table the function returned under the       *)
(* single key CalcPath(name, ()), the function having received the whole   *)
(* Table of the model field.                                               *)

C7_TableStoredWhole ==
    (Evaluated /\ TableScenario /\ run.err # "UserError") =>
        LET key == ProjectPath("Power", CalcPath("output_table", <<>>))
            input == Instance("PowerModel").input_table
        IN  /\ Returned
            /\ key \in DOMAIN Result
            /\ Result[key] = [k \in TableKeys |-> 2 * input[k]]
            /\ \A i \in CallsOfCalc("Power", "output_table") :
                   run.calls[i].inputs.input_table = input

----------------------------------------------------------------------------
(* C8.  If a calculation or verification function raises, the evaluation   *)
(* ends there: the exception reaches the caller, no result is returned,    *)
(* not even a partial one, and the raising call is the last call of the    *)
(* run, so that no later node's function is invoked and the failing one is *)
(* not invoked again.                                                      *)

C8_AbortOnRaise ==
    /\ \A i \in DOMAIN run.calls :
           run.calls[i].raised =>
               /\ i = Len(run.calls)
               /\ run.status = "raised"
               /\ run.err = "UserError"
               /\ run.returned = <<>>
    /\ run.err = "UserError" =>
           (run.calls # <<>> /\ run.calls[Len(run.calls)].raised)

\* A function raised while a scheduled node was still waiting for its call.
C8_Witness ==
    /\ run.err = "UserError"
    /\ \E k \in DOMAIN run.order :
           /\ run.order[k].path.kind # "ModelPath"
           /\ \A i \in DOMAIN run.calls : run.calls[i].node # run.order[k]

----------------------------------------------------------------------------
(* C9.  Two evaluations of the same registry with the same model_data that *)
(* both return visit the scheduled nodes in the same order and return      *)
(* equal results.  (The registry no longer changes once an evaluation has  *)
(* run.)                                                                   *)

C9_Deterministic ==
    [][(/\ run.status = "returned"
        /\ run'.status = "returned"
        /\ run'.model_data = run.model_data) =>
           (run'.order = run.order /\ run'.returned = run.returned)]_vars

----------------------------------------------------------------------------
(* C10.  Registration and the scopes of the references.                    *)

\* The scope a parameter's reference names as the author wrote it: the
\* explicit scope, or the owning scope when none is given.
DeclaredScopesOK(d) ==
    \A i \in DOMAIN FuncParams(d.func) :
        LET sc == IF FuncParams(d.func)[i].scope = "None" THEN d.scope
                  ELSE FuncParams(d.func)[i].scope
        IN  sc = d.scope \/ sc \in d.imports

\* The same on the scope the Ref objects hold when the decorator runs.
CurrentScopesOK(d) ==
    \A i \in DOMAIN refs[d.func] :
        LET sc == IF refs[d.func][i] = "None" THEN d.scope ELSE refs[d.func][i]
        IN  sc = d.scope \/ sc \in d.imports

(* C10 as stated.  Registering a calculation or verification succeeds if   *)
(* and only if every reference's resolved scope (the explicit scope, or    *)
(* the owning scope when none is given) is the owning scope or one of the  *)
(* imports; otherwise it raises the scope-not-imported error and leaves    *)
(* the scope's mappings unchanged.                                         *)

----------------------------------------------------------------------------
\* The name a decoration registers under.
NameOf(d) == IF d.name = "None" THEN d.func ELSE d.name

(* C11.  Registering a function without a return annotation fails with the *)
(* missing-return error, for a calculation and for a verification, and     *)
(* registering a verification whose return annotation is not bool fails;   *)
(* in either case the scope's mappings are unchanged.                      *)

C11_ReturnAnnotationRequired ==
    [][/\ \A d \in RegistryCalcDecorations :
              (calculation(d.scope, d.name, d.imports, d.func)
                 /\ ReturnAnnotation(d.func) = "Empty") =>
                  (lastErr' = "TypeError:no-return-annotation" /\ scopes' = scopes)
       /\ \A d \in RegistryVerifDecorations :
              (verification(d.scope, d.name, d.imports, d.func)
                 /\ ReturnAnnotation(d.func) # "bool") =>
                  /\ lastErr' # ""
                  /\ ReturnAnnotation(d.func) = "Empty" =>
                         lastErr' = "TypeError:no-return-annotation"
                  /\ scopes' = scopes
      ]_vars

----------------------------------------------------------------------------
\* v is TRUE or FALSE (v may be a number).
IsBoolean(v) == ToString(v) \in {ToString(TRUE), ToString(FALSE)}

(* C12.  The value an evaluation stores for a verification is a boolean:   *)
(* a returned result holds TRUE or FALSE under every verification key (a   *)
(* verification returning anything else makes the evaluation fail).        *)

C12_VerificationResultIsBoolean ==
    Returned =>
        \A key \in DOMAIN Result :
            key.path.kind = "VerificationPath" => IsBoolean(Result[key])

----------------------------------------------------------------------------
(* C13.  Names stay unique, and a duplicate changes nothing.               *)

\* No name occurs twice among the scopes of the project, the calculations
\* of a scope or the verifications of a scope.
NamesUnique ==
    /\ \A i, j \in DOMAIN project : project[i] = project[j] => i = j
    /\ \A s \in ScopeNames :
           /\ \A i, j \in DOMAIN scopes[s].calculations :
                  scopes[s].calculations[i][1] = scopes[s].calculations[j][1] => i = j
           /\ \A i, j \in DOMAIN scopes[s].verifications :
                  scopes[s].verifications[i][1] = scopes[s].verifications[j][1] => i = j

\* The function passes the decorator's own tests: every reference's scope
\* is imported and, for a calculation, the return annotation is a type.
CalculationAccepted(d) ==
    Calculation_post_init(NameOf(d), d.func, d.scope, d.imports, refs[d.func]).err = ""

VerificationAccepted(d) ==
    Verification_post_init(NameOf(d), d.func, d.scope, d.imports, refs[d.func]).err = ""

(* C13 as stated.  Adding a scope whose name is in the project, or a       *)
(* calculation (verification) whose name is already a calculation          *)
(* (verification) of the scope, raises the duplicate-name error and leaves *)
(* the mappings unchanged.                                                 *)

----------------------------------------------------------------------------
(* Path strings (PathSpec).                                                *)

Parsed == parsing.via = "parse_path" /\ parsing.stage \in {"parsed", "shown"}
Shown == parsing.via = "parse_path" /\ parsing.stage = "shown"

\* C14: for every syntactically valid path string s, str(parse_path(s)) is s
\* with only the blanks inside brackets normalised (a tuple-key item written
\* "[k1, k2]"), and parsing that string again gives the path parsed first.
C14_StrIsCanonicalInverse ==
    (Shown /\ parsing.wellformed) =>
        /\ parsing.shown = parsing.tree.root \o Canonical(parsing.tree.segs)
        /\ parsing.reparsed = parsing.parsed

KindOfRoot(root) ==
    IF Head(root) = "$" THEN "ModelPath"
    ELSE IF Head(root) = "@" THEN "CalcPath" ELSE "VerificationPath"

\* C15: parse_path takes the prefix before the earliest "." or "[" as the
\* root (the whole string when there is none), then maps each ".name" to an
\* attribute part and each bracket to an item part, a bracket with a comma to
\* a tuple key and one without to a single key, blanks around keys stripped.
C15_ParsePathRootAndParts ==
    (Parsed /\ parsing.wellformed) =>
        /\ parsing.parsed.err = ""
        /\ parsing.parsed.path.kind = KindOfRoot(parsing.tree.root)
        /\ parsing.parsed.path.root = parsing.tree.root
        /\ parsing.parsed.path.parts = PartsOf(parsing.tree.segs)

\* "@c[k , m].t" has been parsed.
C15_Witness ==
    /\ Parsed /\ parsing.wellformed
    /\ parsing.text = <<"@", "c", "[", "k", " ", ",", " ", "m", "]", ".", "t">>
    /\ parsing.parsed.path.parts =
          <<ItemPart(TupleKey(<< <<"k">>, <<"m">> >>)), AttributePart(<<"t">>)>>

HasUnclosedBracket(s) ==
    \E i \in DOMAIN s : s[i] = "[" /\ \A j \in DOMAIN s : j > i => s[j] # "]"

\* C16: parsing a string with a "[" that no "]" follows fails; no path is
\* returned for it.
C16_UnclosedBracketRejected ==
    (Parsed /\ HasUnclosedBracket(parsing.text)) => parsing.parsed.err # ""

KindConstraint(p) ==
    /\ p.kind = "ModelPath" => p.root = <<"$">>
    /\ p.kind = "CalcPath" => p.root # <<>> /\ Head(p.root) = "@"
    /\ p.kind = "VerificationPath" =>
          p.root # <<>> /\ Head(p.root) = "?" /\ p.parts = <<>>

UnknownKind(s) ==
    lstrip(s) = <<>> \/ Head(lstrip(s)) \notin {"$", "@", "?"}
VerificationWithParts(s) ==
    /\ lstrip(s) # <<>> /\ Head(lstrip(s)) = "?"
    /\ \E i \in DOMAIN s : s[i] \in {".", "["}
ModelWithLongRoot(s) ==
    /\ Len(lstrip(s)) >= 2 /\ Head(lstrip(s)) = "$"
    /\ lstrip(s)[2] \notin {".", "[", " "}

\* C17: every path that parse_path or a constructor produces has the root of
\* its kind (ModelPath "$", CalcPath "@...", VerificationPath "?..." and no
\* parts); a string whose first non-blank character is none of "$", "@", "?",
\* a "?" string with a part and a "$" string with a longer root are rejected.
C17_KindConstraints ==
    /\ (parsing.stage \in {"parsed", "shown"} /\ parsing.parsed.err = "") =>
          KindConstraint(parsing.parsed.path)
    /\ (parsing.stage = "shown" /\ parsing.reparsed.err = "") =>
          KindConstraint(parsing.reparsed.path)
    /\ (Parsed /\ (\/ UnknownKind(parsing.text)
                    \/ VerificationWithParts(parsing.text)
                    \/ ModelWithLongRoot(parsing.text))) =>
          parsing.parsed.err # ""

\* "$t.y" has been rejected for its root.
C17_Witness ==
    /\ Parsed
    /\ parsing.text = <<"$", "t", ".", "y">>
    /\ parsing.parsed.err = "ValueError:model-root"

----------------------------------------------------------------------------
(* Tables (TableSpec).                                                     *)

\* The keys of the closed domain that a key names: the variants of its enum,
\* or the product of the variants of its components' enums.
IsEnumKey(key) ==
    IF IsTuple(key) THEN \A n \in DOMAIN key[2] : IsStrEnum(key[2][n][1])
    ELSE IsStrEnum(key[1])
DomainOf(key) ==
    IF IsTuple(key) THEN ProductKeys([n \in DOMAIN key[2] |-> key[2][n][1]])
    ELSE EnumKeys(key[1])
GivenKeys(input) == {input[n][1] : n \in DOMAIN input}

MustBeRejected(input) ==
    \/ input = <<>>
    \/ \E k \in GivenKeys(input) : ~IsEnumKey(k)
    \/ /\ input # <<>>
       /\ \A k \in GivenKeys(input) : IsEnumKey(k)
       /\ GivenKeys(input) # DomainOf(input[1][1])

\* C18: Table(...) rejects an input that is empty, that has a key (or key
\* component) which is no enum member, at whichever position, that lacks a
\* key of the domain or that has a key outside it; no Table is produced.
C18_ConstructionRejects ==
    (table.stage \in {"built", "rejected"} /\ MustBeRejected(table.input)) =>
        table.stage = "rejected" /\ table.err # ""

\* C19: a Table that was constructed has, at every later point, exactly its
\* expected keys, and its expected keys are the variants of its key enum or
\* the product of the variants of its key enums.
C19_ClosedAndImmutable ==
    (table.stage = "built" /\ ~MustBeRejected(table.input)) =>
        /\ table.expected_keys = DomainOf(table.input[1][1])
        /\ {table.items[n][1] : n \in DOMAIN table.items} = table.expected_keys

----------------------------------------------------------------------------
(* Context stack (ContextSpec).                                            *)

\* The innermost open with block of class cls, NoContext when there is none.
RECURSIVE Innermost(_, _)
Innermost(blocks, cls) ==
    IF blocks = <<>> THEN NoContext
    ELSE IF blocks[Len(blocks)][1] = cls THEN blocks[Len(blocks)]
    ELSE Innermost(SubSeq(blocks, 1, Len(blocks) - 1), cls)

Entering == Len(context'.blocks) = Len(context.blocks) + 1
Leaving == Len(context'.blocks) = Len(context.blocks) - 1

\* C20: C.current() is the innermost instance of C entered and not yet
\* exited (None when there is none); entering or leaving a block of another
\* class does not change it; leaving a block, normally or by an exception,
\* pops that block's frame only: C.current() is what it was before the block
\* was entered.
C20_ContextStackDiscipline ==
    [][\A cls \in ContextClasses :
         /\ current(context', cls) = Innermost(context'.blocks, cls)
         /\ \A self \in ContextInstances :
               (Entering /\ context'.blocks = Append(context.blocks, self)) =>
                 /\ self[1] = cls => current(context', cls) = self
                 /\ self[1] # cls => current(context', cls) = current(context, cls)
         /\ Leaving =>
               LET self == context.blocks[Len(context.blocks)]
               IN  /\ self[1] # cls => current(context', cls) = current(context, cls)
                   /\ current(context', cls) = Innermost(context'.blocks, cls)
                   /\ context'.stacks[cls] = SubSeq(context.stacks[cls], 1,
                          Len(context.stacks[cls]) - (IF self[1] = cls THEN 1 ELSE 0))
      ]_vars

\* An exception has left the inner block of another class; the outer block
\* is still open and its instance current.
C20_Witness ==
    /\ context.raising
    /\ context.left = << <<"TestContextMixin2", "inner">> >>
    /\ context.blocks = << <<"TestContextMixin", "outer">> >>
    /\ Len(context.classwide) = 1
    /\ current(context, "TestContextMixin") = <<"TestContextMixin", "outer">>
    /\ current(context, "TestContextMixin2") = NoContext

----------------------------------------------------------------------------
(* Context stacks of two threads (ThreadSpec).                             *)

\* The stacks that a thread's own calls alone leave.
RECURSIVE Replay(_, _)
Replay(calls, c) ==
    IF calls = <<>> THEN c
    ELSE Replay(Tail(calls),
                IF Head(calls)[1] = "enter" THEN Context_enter(c, Head(calls)[2])
                ELSE Context_exit_call(c, Head(calls)[2]))

SeenBy(t) == locals[local_of(t)]

\* C21: under any interleaving of the calls of two threads, the stacks a
\* thread sees (per class and class-wide), and so its current(), are those
\* its own __enter__ and __exit__ calls leave; no context entered by the
\* other thread alone is in them.
C21_ThreadIsolation ==
    \A t \in Threads :
        LET own == Replay(locals[t].calls, IdleLocals[t])
        IN  /\ SeenBy(t).stacks = own.stacks
            /\ SeenBy(t).classwide = own.classwide
            /\ \A cls \in ContextClasses : current(SeenBy(t), cls) = current(own, cls)

\* Each thread is inside a context of a class of which the other has none.
C21_Witness ==
    /\ current(SeenBy("t1"), "TestContextMixin") = <<"TestContextMixin", "outer">>
    /\ current(SeenBy("t1"), "TestContextMixin2") = NoContext
    /\ current(SeenBy("t2"), "TestContextMixin") = NoContext
    /\ current(SeenBy("t2"), "TestContextMixin2") = <<"TestContextMixin2", "outer">>
    /\ Len(SeenBy("t1").classwide) = 1 /\ Len(SeenBy("t2").classwide) = 1

\* C30: after any sequence of __enter__ and __exit__ calls in one thread,
\* exits in any order, the class-wide stack filtered to the instances of a
\* class is the stack of that class, and current() is current_classwide().
C30_ClasswideAgreesWithPerClass ==
    \A t \in Threads, cls \in ContextClasses :
        /\ classwide_stack_queue(SeenBy(t), cls) = SeenBy(t).stacks[thread_local(cls)]
        /\ current(SeenBy(t), cls) = current_classwide(SeenBy(t), cls)

----------------------------------------------------------------------------
(* The scheduler, the graph and the evaluator (Spec).                      *)

Sorted == run.stage \in {"loop", "done"}
Positions(x) == {i \in DOMAIN run.order : run.order[i] = x}

\* C22: the list the scheduler returns for the successor multimap has, for
\* every edge p -> q, the node p before q, and every node that is a key or
\* a value of the multimap exactly once (the graph has no cycle when a list
\* is returned: a cycle makes the scheduler fail).
C22_TopologicalOrder ==
    Sorted =>
        /\ \A n \in Range(GraphNodes(run.edges)) : Cardinality(Positions(n)) = 1
        /\ Range(run.order) = Range(GraphNodes(run.edges))
        /\ \A e \in Range(run.edges) :
               \A i \in Positions(e[1]), j \in Positions(e[2]) : i < j

\* A list was returned for a graph with a path of two edges.
C22_Witness ==
    /\ Sorted
    /\ \E e1, e2 \in Range(run.edges) : e1[2] = e2[1]

\* The calculation that call c of the log was made for, and its output
\* leaves.
CalcOfCall(c) == Lookup(scopes[c.node.scope].calculations, c.node.path.root)
CalcCalls == {i \in DOMAIN run.calls : run.calls[i].node.path.kind = "CalcPath"}

\* C23: when a calculation node is executed, the output is stored under
\* every output leaf of the calculation, result[scope::@name + out_parts] =
\* extract(output, out_parts), whichever output leaf was the node visited;
\* the node visited becomes a key of result, and no key of the calculation
\* has parts outside the leaves of its output type.
C23_OutputSplayedOverOwnLeaves ==
    Returned =>
        \A i \in CalcCalls :
            LET c == run.calls[i]
                calc == CalcOfCall(c)
                leaves == Range(iter_leaf_path_parts(calc.output_type))
                output == Apply(calc.func, c.inputs)
            IN  /\ c.node \in DOMAIN Result
                /\ \A out_parts \in leaves :
                      LET key == ProjectPath(c.node.scope,
                                     CalcPath(c.node.path.root, out_parts))
                      IN  /\ key \in DOMAIN Result
                          /\ Result[key] = get_value_by_parts(output, out_parts).val
                /\ \A key \in DOMAIN Result :
                      (/\ key.scope = c.node.scope
                       /\ key.path.kind = "CalcPath"
                       /\ key.path.root = c.node.path.root) => key.path.parts \in leaves

\* C27: in one evaluate_project call every registered calculation and
\* verification function is invoked at most once, however many output
\* leaves the calculation has.
C27_InvokedAtMostOnce ==
    \A i, j \in DOMAIN run.calls :
        (/\ run.calls[i].node.scope = run.calls[j].node.scope
         /\ run.calls[i].node.path.kind = run.calls[j].node.path.kind
         /\ run.calls[i].node.path.root = run.calls[j].node.path.root) => i = j

----------------------------------------------------------------------------
(* Schemas and types (SchemaSpec).                                         *)

\* The paths to the scalars of value v of schema T: by field for a record
\* (fields annotated None left out), by key for a table, v itself otherwise.
RECURSIVE ScalarPaths(_, _)
ScalarPaths(T, v) ==
    IF IsBaseModel(T)
    THEN LET fs == ModelFields(T)
         IN  UNION {{<<AttributePart(fs[i][1])>> \o q : q \in ScalarPaths(fs[i][2], v[fs[i][1]])} :
                        i \in {j \in DOMAIN fs : fs[j][2] # "None"}}
    ELSE IF Len(GetArgs(T)) = 2 THEN {<<ItemPart(k)>> : k \in DOMAIN v}
    ELSE {<<>>}

\* C25: iter_leaf_path_parts(S) repeats no part-list, and walking a value
\* of S by the part-lists reaches every scalar of the value, each once: the
\* value itself for a scalar schema, the leaves of every field not
\* annotated None, in declaration order, for a record.
C25_WalkerReachesEveryScalarOnce ==
    probe.op = "iter_leaf_path_parts" =>
        LET leaves == probe.out.leaves
        IN  /\ \A m, n \in DOMAIN leaves : leaves[m] = leaves[n] => m = n
            /\ \A n \in DOMAIN leaves : probe.out.values[n].err = ""
            /\ Range(leaves) = ScalarPaths(probe.arg[1], probe.arg[2])

\* What a path names that is not registered, in project P with scopes S.
RECURSIVE FieldsDeclared(_, _)
FieldsDeclared(T, parts) ==
    \/ parts = <<>>
    \/ /\ Head(parts)[1] = "attr"
       /\ IsBaseModel(T) /\ HasKey(ModelFields(T), Head(parts)[2])
       /\ FieldsDeclared(Lookup(ModelFields(T), Head(parts)[2]), Tail(parts))
    \/ /\ Head(parts)[1] = "item"
       /\ Len(GetArgs(T)) = 2 => FieldsDeclared(GetArgs(T)[2], Tail(parts))

\* The walk of parts from T meets an item part at a type that is not a
\* generic of two parameters.
RECURSIVE ItemIntoNonGeneric(_, _)
ItemIntoNonGeneric(T, parts) ==
    /\ parts # <<>>
    /\ IF Head(parts)[1] = "item"
       THEN Len(GetArgs(T)) # 2 \/ ItemIntoNonGeneric(GetArgs(T)[2], Tail(parts))
       ELSE /\ IsBaseModel(T) /\ HasKey(ModelFields(T), Head(parts)[2])
            /\ ItemIntoNonGeneric(Lookup(ModelFields(T), Head(parts)[2]), Tail(parts))

Unregistered(P, S, q) ==
    \/ q.scope \notin Range(P)
    \/ /\ q.scope \in Range(P)
       /\ \/ q.path.kind = "CalcPath" /\ ~HasKey(S[q.scope].calculations, q.path.root)
          \/ q.path.kind = "VerificationPath"
               /\ ~HasKey(S[q.scope].verifications, q.path.root)
          \/ q.path.kind = "ModelPath" /\ S[q.scope].root_model # "None"
               /\ ~FieldsDeclared(S[q.scope].root_model, q.path.parts)

\* C26: get_type fails when the path names a scope, a model field, a
\* calculation or a verification that is not registered; for a
\* verification that exists it returns bool, for a registered calculation
\* its declared output type whatever the parts; an item access into a type
\* that is not a generic of two parameters fails with a type error.
C26_GetTypeUnresolved ==
    [][probe'.op = "get_type" =>
         LET q == probe'.arg
             r == probe'.out
         IN  /\ Unregistered(project, scopes, q) => r.err # ""
             /\ (r.err = "" /\ q.path.kind = "VerificationPath") =>
                   r.type = "bool" /\ HasKey(scopes[q.scope].verifications, q.path.root)
             /\ (r.err = "" /\ q.path.kind = "CalcPath") =>
                   r.type = Lookup(scopes[q.scope].calculations, q.path.root).output_type
             /\ (/\ q.scope \in Range(project) /\ q.path.kind = "ModelPath"
                 /\ scopes[q.scope].root_model # "None"
                 /\ ItemIntoNonGeneric(scopes[q.scope].root_model, q.path.parts)) =>
                   r.err = "TypeError:not-subscriptable"
      ]_vars

----------------------------------------------------------------------------
(* The dependency graph as a set of edges.                                 *)

\* A graph was built: the builder returned.
GraphBuilt == run.stage \in {"sort", "loop", "done"}

\* The sources of one reference: the reference's path extended by each leaf
\* of its type, in the reference's scope and of the reference's kind.
SourcesOf(r) ==
    { ProjectPath(r.scope, [r.path EXCEPT !.parts = r.path.parts \o l]) :
        l \in Range(iter_leaf_path_parts(get_type(project, scopes, r).type)) }

CalcEdges ==
    UNION { UNION { UNION { SourcesOf(c[2].dep_ppaths[j][2]) \X
                            { ProjectPath(s, CalcPath(c[1], o)) :
                                o \in Range(iter_leaf_path_parts(c[2].output_type)) } :
                            j \in DOMAIN c[2].dep_ppaths } :
                    c \in Range(scopes[s].calculations) } :
            s \in Range(project) }

VerifEdges ==
    UNION { UNION { UNION { SourcesOf(v[2].dep_ppaths[j][2]) \X
                            { ProjectPath(s, VerificationPath(v[1])) } :
                            j \in DOMAIN v[2].dep_ppaths } :
                    v \in Range(scopes[s].verifications) } :
            s \in Range(project) }

Producible(n) ==
    /\ n.scope \in Range(project)
    /\ \/ /\ n.path.kind = "ModelPath"
          /\ scopes[n.scope].root_model # "None"
          /\ n.path.parts \in Range(iter_leaf_path_parts(scopes[n.scope].root_model))
       \/ /\ n.path.kind = "CalcPath"
          /\ HasKey(scopes[n.scope].calculations, n.path.root)
          /\ n.path.parts \in Range(iter_leaf_path_parts(
                 Lookup(scopes[n.scope].calculations, n.path.root).output_type))

\* The reference r names something that exists: a field path of the root
\* model of a registered scope, or a field path of the output of a
\* calculation registered in its scope.
Resolves(r) ==
    /\ r.scope \in Range(project)
    /\ \/ /\ r.path.kind = "ModelPath"
          /\ scopes[r.scope].root_model # "None"
          /\ walk_model_type(scopes[r.scope].root_model, r.path.parts).err = ""
       \/ /\ r.path.kind = "CalcPath"
          /\ HasKey(scopes[r.scope].calculations, r.path.root)
          /\ walk_model_type(Lookup(scopes[r.scope].calculations, r.path.root).output_type,
                             r.path.parts).err = ""

AllReferences ==
    UNION { UNION { {d[2].dep_ppaths[j][2] : j \in DOMAIN d[2].dep_ppaths} :
                    d \in Range(scopes[s].calculations) \cup Range(scopes[s].verifications) } :
            s \in Range(project) }

\* C28: in a graph built for a project whose references all resolve, every
\* source of an edge is producible: a leaf of its scope's root model or an
\* output leaf of a calculation registered in its scope.
C28_SourcesProducible ==
    (GraphBuilt /\ \A r \in AllReferences : Resolves(r)) =>
        \A e \in Range(run.edges) : Producible(e[1])

----------------------------------------------------------------------------
\* Every reference of the function is written without a scope.
ScopeLess(f) == \A i \in DOMAIN FuncParams(f) : FuncParams(f)[i].scope = "None"

\* Every dependency of descriptor obj is in the scope `owner`.
DepsIn(obj, owner) == \A j \in DOMAIN obj.dep_ppaths : obj.dep_ppaths[j][2].scope = owner

\* C29: a registration does not change what a later one sees: a function
\* whose references carry no scope, registered in one scope and then in
\* another, has its references resolved to the scope it is being registered
\* in, so the registration is not refused for a scope that is not imported,
\* and the dependencies of each descriptor are in its own owner's scope.
C29_LaterRegistrationOwnScope ==
    [][/\ \A d \in CalcDecorations :
              (calculation(d.scope, d.name, d.imports, d.func) /\ ScopeLess(d.func)) =>
                  /\ lastErr' # "ValueError:scope-not-imported"
                  /\ lastErr' = "" =>
                         DepsIn(Lookup(scopes'[d.scope].calculations, NameOf(d)), d.scope)
       /\ \A d \in VerifDecorations :
              (verification(d.scope, d.name, d.imports, d.func) /\ ScopeLess(d.func)) =>
                  /\ lastErr' # "ValueError:scope-not-imported"
                  /\ lastErr' = "" =>
                         DepsIn(Lookup(scopes'[d.scope].verifications, NameOf(d)), d.scope)
      ]_vars

============================================================================
